---- MODULE Spec2Model ----
(***************************************************************************)
(* Model of src/main.py: the keyword query classifier, the three           *)
(* basic-auth protected endpoints built on it and the health check.        *)
(*                                                                         *)
(* Python strings that the code searches, lower-cases or strips are        *)
(* modelled as sequences of one-character strings, so that substring       *)
(* containment, lower() and strip() are computed and not assumed.          *)
(* Credentials are only compared for equality and stay TLA+ strings.       *)
(***************************************************************************)
EXTENDS Naturals, Sequences, FiniteSets

VARIABLES mock_db, mock_responses, request, response, classified, first_seen

vars == <<mock_db, mock_responses, request, response, classified, first_seen>>

(* ------------------------------ bounds -------------------------------- *)

\* Largest number of vocabulary words in a query of Spec.
MaxWords == 3

(* ------------------------- string primitives --------------------------- *)

UPPERCASE ==
    <<"A", "B", "C", "D", "E", "F", "G", "H", "I", "J", "K", "L", "M", "N", "O", "P", "Q", "R", "S", "T", "U", "V", "W", "X", "Y", "Z">>
LOWERCASE ==
    <<"a", "b", "c", "d", "e", "f", "g", "h", "i", "j", "k", "l", "m", "n", "o", "p", "q", "r", "s", "t", "u", "v", "w", "x", "y", "z">>

\* The lower-case letter of each upper-case letter.
TO_LOWER ==
    [c \in { UPPERCASE[i] : i \in 1..Len(UPPERCASE) } |->
        LOWERCASE[CHOOSE i \in 1..Len(UPPERCASE) : UPPERCASE[i] = c]]

\* str.lower() on one character
lower_char(c) == IF c \in DOMAIN TO_LOWER THEN TO_LOWER[c] ELSE c

\* str.lower()
RECURSIVE lower(_)
lower(s) ==
    IF s = <<>> THEN <<>> ELSE <<lower_char(Head(s))>> \o lower(Tail(s))

\* Python's `sub in s` on strings
contains(s, sub) ==
    \E i \in 0..Len(s) :
        /\ i + Len(sub) <= Len(s)
        /\ \A j \in 1..Len(sub) : s[i + j] = sub[j]

WHITESPACE == {" ", "\t", "\n", "\r"}

\* str.lstrip()
RECURSIVE lstrip(_)
lstrip(s) ==
    IF s # <<>> /\ Head(s) \in WHITESPACE THEN lstrip(Tail(s)) ELSE s

\* str.rstrip()
RECURSIVE rstrip(_)
rstrip(s) ==
    IF s # <<>> /\ s[Len(s)] \in WHITESPACE
    THEN rstrip(SubSeq(s, 1, Len(s) - 1))
    ELSE s

\* str.strip()
strip(s) == rstrip(lstrip(s))

(* --------------------------- string literals --------------------------- *)

STR_sales      == <<"s", "a", "l", "e", "s">>
STR_customers  == <<"c", "u", "s", "t", "o", "m", "e", "r", "s">>
STR_customer   == <<"c", "u", "s", "t", "o", "m", "e", "r">>
STR_by_region  == <<"b", "y", " ", "r", "e", "g", "i", "o", "n">>
STR_total      == <<"t", "o", "t", "a", "l">>
STR_by_product == <<"b", "y", " ", "p", "r", "o", "d", "u", "c", "t">>
STR_count      == <<"c", "o", "u", "n", "t">>
STR_new        == <<"n", "e", "w">>
STR_recent     == <<"r", "e", "c", "e", "n", "t">>
STR_SUM        == <<"S", "U", "M">>

\* "SELECT region, SUM(amount) FROM sales GROUP BY region"
SQL_BY_REGION ==
    <<"S", "E", "L", "E", "C", "T", " ", "r", "e", "g", "i", "o", "n", ",", " ", "S", "U", "M", "(", "a", "m", "o", "u", "n", "t", ")", " ", "F", "R", "O", "M", " ", "s", "a", "l", "e", "s", " ", "G", "R", "O", "U", "P", " ", "B", "Y", " ", "r", "e", "g", "i", "o", "n">>
\* "SELECT SUM(amount) FROM sales"
SQL_TOTAL ==
    <<"S", "E", "L", "E", "C", "T", " ", "S", "U", "M", "(", "a", "m", "o", "u", "n", "t", ")", " ", "F", "R", "O", "M", " ", "s", "a", "l", "e", "s">>
\* "SELECT product, SUM(amount) FROM sales GROUP BY product"
SQL_BY_PRODUCT ==
    <<"S", "E", "L", "E", "C", "T", " ", "p", "r", "o", "d", "u", "c", "t", ",", " ", "S", "U", "M", "(", "a", "m", "o", "u", "n", "t", ")", " ", "F", "R", "O", "M", " ", "s", "a", "l", "e", "s", " ", "G", "R", "O", "U", "P", " ", "B", "Y", " ", "p", "r", "o", "d", "u", "c", "t">>
\* "SELECT COUNT(*) FROM customers"
SQL_COUNT ==
    <<"S", "E", "L", "E", "C", "T", " ", "C", "O", "U", "N", "T", "(", "*", ")", " ", "F", "R", "O", "M", " ", "c", "u", "s", "t", "o", "m", "e", "r", "s">>
\* "SELECT * FROM customers ORDER BY signup_date DESC"
SQL_RECENT ==
    <<"S", "E", "L", "E", "C", "T", " ", "*", " ", "F", "R", "O", "M", " ", "c", "u", "s", "t", "o", "m", "e", "r", "s", " ", "O", "R", "D", "E", "R", " ", "B", "Y", " ", "s", "i", "g", "n", "u", "p", "_", "d", "a", "t", "e", " ", "D", "E", "S", "C">>
\* "SELECT * FROM sales"
SQL_DEFAULT ==
    <<"S", "E", "L", "E", "C", "T", " ", "*", " ", "F", "R", "O", "M", " ", "s", "a", "l", "e", "s">>

(* ------------------------------ static data ---------------------------- *)

MOCK_DB ==
    [t \in {STR_sales, STR_customers} |->
        IF t = STR_sales
        THEN [columns |-> <<"date", "amount", "region", "product">>]
        ELSE [columns |-> <<"id", "name", "email", "signup_date">>]]

MOCK_RESPONSES ==
    [t \in {STR_sales, STR_customers} |->
        IF t = STR_sales
        THEN << [date |-> "2025-03-01", amount |-> 1000, region |-> "North", product |-> "Widget"],
                [date |-> "2025-03-02", amount |-> 1500, region |-> "South", product |-> "Gadget"] >>
        ELSE << [id |-> 1, name |-> "John Doe", email |-> "john@example.com", signup_date |-> "2025-01-01"],
                [id |-> 2, name |-> "Jane Smith", email |-> "jane@example.com", signup_date |-> "2025-02-01"] >>]

(* ------------------------------ classifier ----------------------------- *)

\* return "SELECT * FROM sales", "sales"  # Default fallback
FALLBACK_misspelt == <<SQL_DEFAULT, <<"s", "a", "l", "e">>>>

FALLBACK == <<SQL_DEFAULT, STR_sales>>

\* The body of `if "sales" in query:`; a branch that returns nothing falls
\* through to the default fallback.
sales_branch_total_first(query) ==
    IF contains(query, STR_total) THEN <<SQL_TOTAL, STR_sales>>
    ELSE IF contains(query, STR_by_region) THEN <<SQL_BY_REGION, STR_sales>>
    ELSE IF contains(query, STR_by_product) THEN <<SQL_BY_PRODUCT, STR_sales>>
    ELSE FALLBACK

sales_branch(query) ==
    IF contains(query, STR_by_region) THEN <<SQL_BY_REGION, STR_sales>>
    ELSE IF contains(query, STR_total) THEN <<SQL_TOTAL, STR_sales>>
    ELSE IF contains(query, STR_by_product) THEN <<SQL_BY_PRODUCT, STR_sales>>
    ELSE FALLBACK

\* The body of `elif "customer" in query or "customers" in query:`.
customers_branch_new_first(query) ==
    IF contains(query, STR_new) \/ contains(query, STR_recent)
    THEN <<SQL_RECENT, STR_customers>>
    ELSE IF contains(query, STR_count) THEN <<SQL_COUNT, STR_customers>>
    ELSE FALLBACK

customers_branch_select_all(query) ==
    IF contains(query, STR_count) THEN <<SQL_COUNT, STR_customers>>
    ELSE IF contains(query, STR_new) \/ contains(query, STR_recent)
    THEN <<SQL_RECENT, STR_customers>>
    ELSE <<<<"S", "E", "L", "E", "C", "T", " ", "*", " ", "F", "R", "O", "M", " ", "c", "u", "s", "t", "o", "m", "e", "r", "s">>, STR_customers>>

customers_branch_keeps_table(query) ==
    IF contains(query, STR_count) THEN <<SQL_COUNT, STR_customers>>
    ELSE IF contains(query, STR_new) \/ contains(query, STR_recent)
    THEN <<SQL_RECENT, STR_customers>>
    ELSE <<SQL_DEFAULT, STR_customers>>

customers_branch(query) ==
    IF contains(query, STR_count) THEN <<SQL_COUNT, STR_customers>>
    ELSE IF contains(query, STR_new) \/ contains(query, STR_recent)
    THEN <<SQL_RECENT, STR_customers>>
    ELSE FALLBACK

\* parse_query_to_sql: <<statement, table>>
parse_query_to_sql_customers_first(query) ==
    LET q == lower(query) IN
    IF contains(q, STR_customer) \/ contains(q, STR_customers)
    THEN customers_branch(q)
    ELSE IF contains(q, STR_sales) THEN sales_branch(q)
    ELSE FALLBACK

parse_query_to_sql(query) ==
    LET q == lower(query) IN
    IF contains(q, STR_sales) THEN sales_branch(q)
    ELSE IF contains(q, STR_customer) \/ contains(q, STR_customers)
    THEN customers_branch(q)
    ELSE FALLBACK

(* ------------------------------- requests ------------------------------ *)

WORD_SALES_UPPER == <<"S", "A", "L", "E", "S">>
WORD_By_Region   == <<"B", "y", " ", "R", "e", "g", "i", "o", "n">>
WORD_xyz         == <<"x", "y", "z">>

\* Words a query is assembled from: every keyword of the classifier, two of
\* them in another letter case too, a word that is no keyword, and the empty word
\* (which yields the empty and the whitespace-only queries).
Vocabulary ==
    { STR_sales, WORD_SALES_UPPER, STR_by_region, WORD_By_Region, STR_total,
      STR_by_product, STR_customer, STR_customers, STR_count, STR_new,
      STR_recent, WORD_xyz, <<>> }

\* " ".join(ws)
RECURSIVE join(_)
join(ws) ==
    IF ws = <<>> THEN <<>>
    ELSE IF Len(ws) = 1 THEN ws[1]
    ELSE ws[1] \o <<" ">> \o join(Tail(ws))

QueriesUpTo(n) == { join(ws) : ws \in UNION { [1..k -> Vocabulary] : k \in 0..n } }

Queries == QueriesUpTo(MaxWords)

\* The queries sent with every kind of credentials, and the queries of
\* SpecRepeat: each single word, and three queries of several keywords.
ShortQueries ==
    QueriesUpTo(1) \cup
    { join(<<STR_customer, STR_count>>),
      join(<<WORD_SALES_UPPER, WORD_By_Region>>),
      join(<<STR_sales, STR_customer, STR_count>>) }

NoCredentials == [present |-> FALSE, username |-> "", password |-> ""]

\* The Authorization header of a request: absent, or a username/password pair.
Credentials ==
    { NoCredentials } \cup
    { [present |-> TRUE, username |-> u, password |-> p] :
        u \in {"admin", "Admin"}, p \in {"secret123", "admin"} }

Endpoints == {"/query", "/explain", "/validate"}

ValidCredentials == [present |-> TRUE, username |-> "admin", password |-> "secret123"]

RequestsOver(cs, qs) ==
    { [endpoint |-> e, credentials |-> c, query |-> q] :
        e \in Endpoints, c \in cs, q \in qs }

HealthRequest == [endpoint |-> "/health", credentials |-> NoCredentials, query |-> <<>>]

\* The requests of Spec.  A handler reads the query only after the
\* credentials were accepted, so the long queries come with the accepted
\* credentials and the short ones with every kind of credentials.
Requests ==
    RequestsOver({ValidCredentials}, Queries)
    \cup RequestsOver(Credentials, ShortQueries)
    \cup {HealthRequest}

\* The requests of SpecRepeat.
RepeatRequests == RequestsOver(Credentials, ShortQueries) \cup {HealthRequest}

NoRequest == [endpoint |-> "none", credentials |-> NoCredentials, query |-> <<>>]

NoResponse == [status_code |-> 0]

NotClassified == [called |-> FALSE]

(* ---------------------------- authentication --------------------------- *)

\* HTTPBasic() rejects a request without credentials; verify_credentials
\* rejects every pair but ("admin", "secret123").  TRUE: the handler runs.
verify_credentials_both_wrong(credentials) ==
    /\ credentials.present
    /\ ~ (credentials.username # "admin" /\ credentials.password # "secret123")

verify_credentials(credentials) ==
    /\ credentials.present
    /\ ~ (credentials.username # "admin" \/ credentials.password # "secret123")

Unauthorized(credentials) ==
    [status_code |-> 401,
     detail |-> IF credentials.present THEN "Invalid credentials" ELSE "Not authenticated"]

(* ------------------------------- handlers ------------------------------ *)

Init ==
    /\ mock_db = MOCK_DB
    /\ mock_responses = MOCK_RESPONSES
    /\ request = NoRequest
    /\ response = NoResponse
    /\ classified = NotClassified
    /\ first_seen = NotClassified

\* A client sends one of the given requests; one request is in flight at a
\* time.
Receive(requests) ==
    /\ request = NoRequest
    /\ \E r \in requests : request' = r
    /\ UNCHANGED <<mock_db, mock_responses, response, classified, first_seen>>

Pending(endpoint) == request.endpoint = endpoint /\ response = NoResponse

\* dict.get(key, [])
get(d, key) == IF key \in DOMAIN d THEN d[key] ELSE <<>>

\* POST /query
process_query_consuming ==
    /\ Pending("/query")
    /\ IF ~ verify_credentials(request.credentials)
       THEN /\ response' = Unauthorized(request.credentials)
            /\ classified' = NotClassified
       ELSE LET parsed == parse_query_to_sql(request.query)
                sql_query == parsed[1]
                table == parsed[2]
            IN  /\ classified' = [called |-> TRUE, sql_query |-> sql_query, table |-> table]
                /\ response' = [status_code |-> 200,
                                original_query |-> request.query,
                                translated_sql |-> sql_query,
                                results |-> get(mock_responses, table)]
    /\ mock_responses' =
         IF verify_credentials(request.credentials)
         THEN [t \in DOMAIN mock_responses |-> <<>>]
         ELSE mock_responses
    /\ UNCHANGED <<mock_db, request, first_seen>>

process_query ==
    /\ Pending("/query")
    /\ IF ~ verify_credentials(request.credentials)
       THEN /\ response' = Unauthorized(request.credentials)
            /\ classified' = NotClassified
       ELSE LET parsed == parse_query_to_sql(request.query)
                sql_query == parsed[1]
                table == parsed[2]
            IN  /\ classified' = [called |-> TRUE, sql_query |-> sql_query, table |-> table]
                /\ response' = [status_code |-> 200,
                                original_query |-> request.query,
                                translated_sql |-> sql_query,
                                results |-> get(mock_responses, table)]
    /\ UNCHANGED <<mock_db, mock_responses, request, first_seen>>

\* "SUM" in sql_query
query_type(sql_query) ==
    IF contains(sql_query, STR_SUM) THEN "aggregation" ELSE "selection"

\* POST /explain
explain_query ==
    /\ Pending("/explain")
    /\ IF ~ verify_credentials(request.credentials)
       THEN /\ response' = Unauthorized(request.credentials)
            /\ classified' = NotClassified
       ELSE LET parsed == parse_query_to_sql(request.query)
                sql_query == parsed[1]
                table == parsed[2]
            IN  /\ classified' = [called |-> TRUE, sql_query |-> sql_query, table |-> table]
                /\ response' =
                     IF table \in DOMAIN mock_db
                     THEN [status_code |-> 200,
                           original_query |-> request.query,
                           breakdown |-> [detected_table |-> table,
                                          query_type |-> query_type(sql_query),
                                          columns |-> mock_db[table].columns],
                           translated_sql |-> sql_query]
                     ELSE [status_code |-> 400, detail |-> "Query explanation failed"]
    /\ UNCHANGED <<mock_db, mock_responses, request, first_seen>>

\* any(table in query for table in mock_db.keys())
has_valid_table_all(query) == \A table \in DOMAIN mock_db : contains(query, table)

has_valid_table(query) == \E table \in DOMAIN mock_db : contains(query, table)

\* POST /validate
validate_query ==
    /\ Pending("/validate")
    /\ IF ~ verify_credentials(request.credentials)
       THEN response' = Unauthorized(request.credentials)
       ELSE LET query == lower(request.query) IN
            response' =
              IF strip(query) = <<>>
              THEN [status_code |-> 200, query |-> request.query,
                    is_valid |-> FALSE, message |-> "Query cannot be empty"]
              ELSE IF ~ has_valid_table(query)
              THEN [status_code |-> 200, query |-> request.query,
                    is_valid |-> FALSE, message |-> "No valid table reference found"]
              ELSE [status_code |-> 200, query |-> request.query,
                    is_valid |-> TRUE, message |-> "Query appears valid"]
    /\ classified' = NotClassified
    /\ UNCHANGED <<mock_db, mock_responses, request, first_seen>>

\* GET /health
health_check ==
    /\ Pending("/health")
    /\ response' = [status_code |-> 200, status |-> "healthy"]
    /\ classified' = NotClassified
    /\ UNCHANGED <<mock_db, mock_responses, request, first_seen>>

\* The response is returned to the client and the exchange ends.
Reply ==
    /\ response # NoResponse
    /\ request' = NoRequest
    /\ response' = NoResponse
    /\ classified' = NotClassified
    /\ UNCHANGED <<mock_db, mock_responses, first_seen>>

\* As Reply, and the first classification of the run is remembered with its
\* input, to compare later classifications of the same input with it.
ReplyRemembering ==
    /\ response # NoResponse
    /\ request' = NoRequest
    /\ response' = NoResponse
    /\ classified' = NotClassified
    /\ first_seen' =
         IF classified.called /\ ~ first_seen.called
         THEN [called |-> TRUE, query |-> request.query,
               sql_query |-> classified.sql_query, table |-> classified.table]
         ELSE first_seen
    /\ UNCHANGED <<mock_db, mock_responses>>

Next ==
    \/ Receive(Requests)
    \/ process_query
    \/ explain_query
    \/ validate_query
    \/ health_check
    \/ Reply

Spec == Init /\ [][Next]_vars

NextRepeat ==
    \/ Receive(RepeatRequests)
    \/ process_query
    \/ explain_query
    \/ validate_query
    \/ health_check
    \/ ReplyRemembering

SpecRepeat == Init /\ [][NextRepeat]_vars

(* ------------------------- properties: helpers ------------------------ *)

\* The handler of the request in flight has called the classifier.
Classified == classified.called

\* The result of the classifier call of the request in flight.
Result == <<classified.sql_query, classified.table>>

\* An authenticated request to the endpoint has been answered.
Answered(endpoint) ==
    /\ request.endpoint = endpoint
    /\ response.status_code = 200

\* Every character of q is whitespace (the empty string included).
Blank(q) == \A i \in 1..Len(q) : q[i] \in WHITESPACE

\* The characters of s up to its first space.
RECURSIVE first_word(_)
first_word(s) ==
    IF s = <<>> \/ Head(s) = " " THEN <<>> ELSE <<Head(s)>> \o first_word(Tail(s))

\* The table named in the FROM clause of a statement.
from_table(sql) ==
    LET FROM == <<"F", "R", "O", "M", " ">>
        at == CHOOSE i \in 0..Len(sql) :
                  /\ i + Len(FROM) <= Len(sql)
                  /\ \A j \in 1..Len(FROM) : sql[i + j] = FROM[j]
    IN  first_word(SubSeq(sql, at + Len(FROM) + 1, Len(sql)))

(* ------------------------------- C1 ------------------------------------ *)

C1_case(q) == contains(q, STR_sales) /\ contains(q, STR_by_region)

\* C1: whenever the classifier was called with an input whose lower-cased
\* form contains both "sales" and "by region", it returned the
\* region-aggregation statement and the table "sales".
C1_SalesByRegion ==
    Classified /\ C1_case(lower(request.query))
        => Result = <<SQL_BY_REGION, STR_sales>>

\* An upper-case "SALES" with "total" before "by region" was classified as
\* the region aggregation.
C1_Witness ==
    /\ Classified
    /\ request.query = join(<<WORD_SALES_UPPER, STR_total, STR_by_region>>)
    /\ Result = <<SQL_BY_REGION, STR_sales>>

(* ------------------------------- C2 ------------------------------------ *)

C2_claimed(q) ==
    LET recognized == contains(q, STR_sales) \/ contains(q, STR_customers)
                        \/ contains(q, STR_customer)
    IN  /\ Blank(q) =>
            ~ response.is_valid /\ response.message = "Query cannot be empty"
        /\ ~ Blank(q) /\ ~ recognized =>
            ~ response.is_valid /\ response.message = "No valid table reference found"
        /\ ~ Blank(q) /\ recognized => response.is_valid

\* C2 as stated: "sales", "customers" and "customer" are the recognized
\* keywords of /validate.
C2_AsStated == Answered("/validate") => C2_claimed(lower(request.query))

C2_amended(q) ==
    LET recognized == contains(q, STR_sales) \/ contains(q, STR_customers)
    IN  /\ Blank(q) =>
            ~ response.is_valid /\ response.message = "Query cannot be empty"
        /\ ~ Blank(q) /\ ~ recognized =>
            ~ response.is_valid /\ response.message = "No valid table reference found"
        /\ ~ Blank(q) /\ recognized => response.is_valid

\* C2 amended: /validate reports "Query cannot be empty" for an empty or
\* whitespace-only input, "No valid table reference found" for a non-blank
\* input whose lower-cased form contains neither table name "sales" nor
\* "customers", and is_valid = true for every other input; "customer" alone
\* is not recognized.
C2_Validate == Answered("/validate") => C2_amended(lower(request.query))

\* "customer count" was validated and reported invalid.
C2_Witness ==
    /\ Answered("/validate")
    /\ request.query = join(<<STR_customer, STR_count>>)
    /\ ~ response.is_valid
    /\ response.message = "No valid table reference found"

(* ------------------------------- C3 ------------------------------------ *)

\* C3 as stated: breakdown.query_type of an /explain response is
\* "aggregation" if the generated statement contains SUM or COUNT, and
\* "selection" otherwise.
C3_AsStated ==
    Answered("/explain") =>
        response.breakdown.query_type =
            IF contains(response.translated_sql, STR_SUM)
                  \/ contains(response.translated_sql, <<"C", "O", "U", "N", "T">>)
            THEN "aggregation" ELSE "selection"

(* ------------------------------- C4 ------------------------------------ *)

\* C4: every classifier call returned a non-empty statement and a table that
\* is a key of mock_responses and of mock_db, and no request is answered with
\* the processing failure (400).
C4_Total ==
    /\ Classified =>
          /\ classified.sql_query # <<>>
          /\ classified.table \in DOMAIN mock_responses
          /\ classified.table \in DOMAIN mock_db
    /\ response.status_code # 400

\* The empty string was classified and explained.
C4_Witness ==
    /\ Classified
    /\ request.query = <<>>
    /\ Answered("/explain")

(* ------------------------------- C5 ------------------------------------ *)

\* C5: a request to a protected endpoint is answered 200 exactly if its
\* credentials are ("admin", "secret123"); every other request to one is
\* answered 401 with nothing but the failure detail, and the classifier is
\* not called for it; /health answers {status: "healthy"} without
\* credentials.
C5_Authentication ==
    /\ request.endpoint \in Endpoints /\ response # NoResponse =>
          IF /\ request.credentials.present
             /\ request.credentials.username = "admin"
             /\ request.credentials.password = "secret123"
          THEN response.status_code = 200
          ELSE /\ response.status_code = 401
               /\ DOMAIN response = {"status_code", "detail"}
               /\ ~ Classified
    /\ request.endpoint = "/health" /\ response # NoResponse =>
          /\ ~ request.credentials.present
          /\ response = [status_code |-> 200, status |-> "healthy"]

\* The right username with a wrong password was refused.
C5_Witness ==
    /\ request.endpoint = "/query"
    /\ request.credentials.present
    /\ request.credentials.username = "admin"
    /\ request.credentials.password = "admin"
    /\ response.status_code = 401

(* ------------------------------- C6 ------------------------------------ *)

C6_case(q) ==
    \/ ~ contains(q, STR_sales) /\ ~ contains(q, STR_customer)
    \/ /\ contains(q, STR_sales)
       /\ ~ contains(q, STR_by_region)
       /\ ~ contains(q, STR_total)
       /\ ~ contains(q, STR_by_product)
    \/ /\ ~ contains(q, STR_sales)
       /\ contains(q, STR_customer)
       /\ ~ contains(q, STR_count)
       /\ ~ contains(q, STR_new)
       /\ ~ contains(q, STR_recent)

\* C6: an input with neither "sales" nor "customer", or one that selects a
\* branch and has none of its sub-keywords, is classified as the default
\* statement with table "sales".
C6_Default ==
    Classified /\ C6_case(lower(request.query))
        => Result = <<SQL_DEFAULT, STR_sales>>

\* A customers-branch input without sub-keyword got the table "sales".
C6_Witness ==
    /\ Classified
    /\ request.query = join(<<STR_customers, WORD_xyz>>)
    /\ Result = <<SQL_DEFAULT, STR_sales>>

(* ------------------------------- C7 ------------------------------------ *)

C7_holds(q) ==
    contains(q, STR_customer) /\ ~ contains(q, STR_sales) =>
        /\ contains(q, STR_count) => Result = <<SQL_COUNT, STR_customers>>
        /\ ~ contains(q, STR_count)
              /\ (contains(q, STR_new) \/ contains(q, STR_recent))
              => Result = <<SQL_RECENT, STR_customers>>

\* C7: an input with "customer" and without "sales" is classified as the
\* count statement if it contains "count", else as the ordered listing if
\* it contains "new" or "recent"; both with table "customers".
C7_Customers == Classified => C7_holds(lower(request.query))

\* An input with "count" and "new" was classified as the count statement.
C7_Witness ==
    /\ Classified
    /\ request.query = join(<<STR_customer, STR_new, STR_count>>)
    /\ Result = <<SQL_COUNT, STR_customers>>

(* ------------------------------- C8 ------------------------------------ *)

C9_holds(q) ==
    /\ contains(q, STR_sales) =>
          /\ classified.table = STR_sales
          /\ classified.sql_query =
               IF contains(q, STR_by_region) THEN SQL_BY_REGION
               ELSE IF contains(q, STR_total) THEN SQL_TOTAL
               ELSE IF contains(q, STR_by_product) THEN SQL_BY_PRODUCT
               ELSE SQL_DEFAULT
    /\ ~ contains(q, STR_sales) /\ contains(q, STR_customer)
          /\ contains(q, STR_count)
          => classified.sql_query = SQL_COUNT

\* C9: an input with "sales" is classified by the sales branch alone, where
\* "by region" beats "total" beats "by product", whatever customers keywords
\* it has; in the customers branch "count" beats "new" and "recent".
C9_FirstMatch == Classified => C9_holds(lower(request.query))

\* "sales customer count" was classified as the default statement.
C9_Witness ==
    /\ Classified
    /\ request.query = join(<<STR_sales, STR_customer, STR_count>>)
    /\ Result = <<SQL_DEFAULT, STR_sales>>

(* ------------------------------- C10 ----------------------------------- *)

\* C10: the table returned by the classifier is the table of the FROM clause
\* of the returned statement; the results of a /query response are the mock
\* dataset, and the columns of an /explain response the column list, of the
\* table that translated_sql reads from.
C10_TableOfStatement ==
    /\ Classified => classified.table = from_table(classified.sql_query)
    /\ Answered("/query") =>
          response.results = mock_responses[from_table(response.translated_sql)]
    /\ Answered("/explain") =>
          response.breakdown.columns =
              mock_db[from_table(response.translated_sql)].columns

\* A customers-branch input that fell through was answered with the sales
\* dataset.
C10_Witness ==
    /\ Answered("/query")
    /\ request.query = join(<<STR_customer, WORD_xyz>>)
    /\ response.translated_sql = SQL_DEFAULT
    /\ response.results = mock_responses[STR_sales]

====
